---- MODULE Spec2Model ----
(***************************************************************************)
(* Memory & context selection engine of Automaker.                         *)
(*                                                                         *)
(*   memory-loader.ts  : withFileLock, parseFrontmatter,                   *)
(*                       serializeFrontmatter, calculateUsageScore,        *)
(*                       incrementUsageStat, appendLearning,               *)
(*                       initializeMemoryFolder                            *)
(*   context-loader.ts : loadContextFiles                                  *)
(*                                                                         *)
(* Two families of behaviours are specified over one set of variables:     *)
(*   Spec      concurrent callers of incrementUsageStat / appendLearning   *)
(*             going through withFileLock (one JavaScript event loop);     *)
(*   SpecLoad, SpecSelect                                                  *)
(*             one loadContextFiles call, step by step, over a file        *)
(*             system whose operations may fail.                           *)
(*                                                                         *)
(* Numbers: importance is kept in hundredths (0.9 is 90, 0.5 is 50); a     *)
(* relevance score is kept as an exact fraction (see Score).               *)
(***************************************************************************)
EXTENDS Integers, Sequences, FiniteSets, TLC

VARIABLES
    \* ---- the file system (shared by all specifications)
    memDirExists,   \* .automaker/memory exists
    files,          \* memory file name -> content (see NoFile, MemoryFile)
    \* ---- memory-loader.ts, module state and callers in flight
    fileLocks,      \* the Map fileLocks: file name -> owner of the pending promise, or NoLock
    waiters,        \* caller -> callers awaiting the lock promise that caller created
    microq,         \* continuations of resolved awaits, in the order they will run
    pc,             \* caller -> where it is in withFileLock / its operation
    op,             \* caller -> the call it is executing
    pending,        \* caller -> the content its operation is about to write
    ret,            \* caller -> how its call ended: "none", "ok" or "error"
    \* ---- history (not program state)
    files0,         \* files as they were initially
    appendsDone,    \* file name -> number of completed appendLearning calls
    after,          \* caller -> appendsDone of its file when it made its call
    log,            \* file name -> the learnings appendLearning wrote to it and the
                    \* starter contents initializeMemoryFolder wrote to it, in order
    overlapping,    \* every call after the first arrived during the first caller's operation
    fsFaults,       \* the callers whose file-system calls may reject on targets that exist
    rejected,       \* caller -> the file-system calls of its operation that rejected
    requests,       \* the callers, in the order in which they called withFileLock
    \* ---- one loadContextFiles call
    lpc,            \* position in loadContextFiles
    opts,           \* the options of the call
    ctxDir,         \* the context directory
    memListing,     \* what readdir(memoryDir) returns
    outFiles,       \* the local `files`
    scoredFiles,    \* the local `scoredFiles`, sorted once lpc passed the sort
    selectedFiles,  \* the local `selectedFiles`
    memoryFiles,    \* the local `memoryFiles`
    formattedPrompt,\* the local `formattedPrompt`
    outcome,        \* "pending", "resolved" or "rejected"
    failed,         \* history: the file-system calls of this run that rejected
    \* ---- agent tasks
    tasks,          \* caller -> the arguments of its recordMemoryUsage call, <<>> when
                    \* no agent tasks are specified
    \* ---- one application of a pure function
    arg,            \* the argument
    results         \* what has been computed from it so far, in order

lockVars == <<fileLocks, waiters, microq, pc, op, pending, ret>>
histVars == <<files0, appendsDone, after, log, overlapping, fsFaults, rejected, requests>>
loadVars == <<lpc, opts, ctxDir, memListing, outFiles, scoredFiles, selectedFiles,
              memoryFiles, formattedPrompt, outcome, failed>>
pureVars == <<arg, results>>
vars == <<memDirExists, files, lockVars, histVars, loadVars, tasks, pureVars>>

----------------------------------------------------------------------------
(* Bounds *)

NumCallers == 3

Callers == 1..NumCallers

----------------------------------------------------------------------------
(* Data model: metadata, file content *)

Stats == {"loaded", "referenced", "successfulFeatures"}

\* A summary string, kept by its parts: the fixed words `text` and the values
\* `list` spliced into it (a category name, or the items of a bracketed list).
Text(s) == [text |-> s, list |-> {}]

ZeroStats == [loaded |-> 0, referenced |-> 0, successfulFeatures |-> 0]

\* The importance parseFloat returns for captured text without a digit, such
\* as "importance: ." : NaN, which Math.min and Math.max hand on.  Every
\* comparison with it is false.
NotANumber == -1

createDefaultMetadata ==
    [tags |-> {}, summary |-> Text(""), relevantTo |-> {}, importance |-> 50,
     relatedFiles |-> {}, usageStats |-> ZeroStats]

\* A file that does not exist.
NoFile == [exists |-> FALSE, fm |-> FALSE, meta |-> createDefaultMetadata, body |-> <<>>]

\* A file: `fm` says whether the text starts with a frontmatter block, `meta`
\* is what that block states, `body` is the lines after it.
MemoryFile(fm, meta, body) ==
    [exists |-> TRUE, fm |-> fm, meta |-> IF fm THEN meta ELSE createDefaultMetadata,
     body |-> body]

----------------------------------------------------------------------------
(* Body text.  A body is a sequence of blocks: a blank (whitespace-only)    *)
(* line, a line of prose, a "# <category>" heading, or a formatted learning *)

Blank == [tag |-> "blank", text |-> "", bullets |-> {}]

Prose(t) == [tag |-> "text", text |-> t, bullets |-> {}]

Heading(category) == [tag |-> "#", text |-> category, bullets |-> {}]

\* String.prototype.trim() of the body is empty
\* A check that lets every body through.
NeverEmpty(body) == FALSE

RECURSIVE TrimIsEmpty(_)
TrimIsEmpty(body) ==
    IF body = <<>> THEN TRUE
    ELSE IF Head(body) = Blank THEN TrimIsEmpty(Tail(body)) ELSE FALSE

\* What `---\s*\r?\n` at the end of frontmatterRegex consumes after the closing
\* dashes: every whitespace-only line that follows them.
RECURSIVE StripLeadingBlank(_)
StripLeadingBlank(body) ==
    IF body # <<>> /\ Head(body) = Blank THEN StripLeadingBlank(Tail(body)) ELSE body

----------------------------------------------------------------------------
(* Frontmatter codec *)

\* The header lines, read field by field with the regular expressions of
\* parseFrontmatter.  `summary:\s*(.+)`: when the value is empty, \s* runs over
\* the line break and (.+) captures the next line, "relevantTo: [..]".
ParseHeader(m) ==
    [m EXCEPT !.summary =
        IF m.summary.text = "" THEN [text |-> "relevantTo:", list |-> m.relevantTo]
        ELSE m.summary]

parseFrontmatter(content) ==
    IF ~content.fm
    THEN [metadata |-> createDefaultMetadata, body |-> content.body]
    ELSE [metadata |-> ParseHeader(content.meta),
          body |-> StripLeadingBlank(content.body)]

\* serializeFrontmatter(metadata) + text.  An importance of NaN is written as
\* "importance: NaN", where /importance:\s*([\d.]+)/ finds nothing, so that the
\* block states the default importance.
serializeFrontmatter(metadata, body) ==
    MemoryFile(TRUE,
               [metadata EXCEPT !.importance =
                   IF @ = NotANumber THEN createDefaultMetadata.importance ELSE @],
               body)

----------------------------------------------------------------------------
(* Learnings *)

LearningFields == {"context", "why", "rejected", "tradeoffs", "breaking"}

BulletLabel(type, f) ==
    IF type = "decision" THEN
        CASE f = "context" -> "Context"
          [] f = "why" -> "Why"
          [] f = "rejected" -> "Rejected"
          [] f = "tradeoffs" -> "Trade-offs"
          [] OTHER -> "Breaking if changed"
    ELSE IF type = "gotcha" THEN
        CASE f = "context" -> "Situation"
          [] f = "why" -> "Root cause"
          [] OTHER -> "How to avoid"
    ELSE
        CASE f = "context" -> "Problem solved"
          [] f = "why" -> "Why this works"
          [] OTHER -> "Trade-offs"

BulletFields(type) ==
    IF type = "decision" THEN LearningFields ELSE {"context", "why", "tradeoffs"}

formatLearning(learning) ==
    [tag |-> CASE learning.type = "decision" -> "###"
               [] learning.type = "gotcha" -> "#### [Gotcha]"
               [] learning.type = "pattern" -> "#### [Pattern]"
               [] OTHER -> "#### [Learned]",
     text |-> learning.content,
     bullets |-> {BulletLabel(learning.type, f) :
                     f \in learning.fields \cap BulletFields(learning.type)}]

\* learning.category.toLowerCase().replace(/\s+/g,'-').replace(/[^a-z0-9-]/g,'')
\* on the categories the callers use.
Categories == {"API Design", "api-design", "Gotchas"}

SanitizeCategory(category) ==
    CASE category = "API Design" -> "api-design"
      [] category = "api-design" -> "api-design"
      [] category = "Gotchas" -> "gotchas"
      [] OTHER -> ""

CategoryOrGeneral(category) ==
    IF SanitizeCategory(category) = "" THEN "general" ELSE SanitizeCategory(category)

LearningFileName(category) ==
    CASE CategoryOrGeneral(category) = "api-design" -> "api-design.md"
      [] CategoryOrGeneral(category) = "gotchas" -> "gotchas.md"
      [] OTHER -> "general.md"

SummaryOf(category) == [text |-> "implementation decisions and patterns", list |-> {category}]

\* The content appendLearning writes when the file does not exist.
NewLearningFile(learning) ==
    serializeFrontmatter(
        [tags |-> {CategoryOrGeneral(learning.category)},
         summary |-> SummaryOf(learning.category),
         relevantTo |-> {CategoryOrGeneral(learning.category)},
         importance |-> 70,
         relatedFiles |-> {},
         usageStats |-> ZeroStats],
        <<Heading(learning.category), formatLearning(learning)>>)

\* fsModule.appendFile(filePath, '\n' + formatted)
AppendedFile(content, block) ==
    IF content.exists THEN [content EXCEPT !.body = Append(@, block)]
    ELSE MemoryFile(FALSE, createDefaultMetadata, <<block>>)

\* An increment that raises every counter.
IncrementEveryStat(content, stat) ==
    LET parsed == parseFrontmatter(content)
        metadata == [parsed.metadata EXCEPT !.usageStats =
                        [s \in Stats |-> parsed.metadata.usageStats[s] + 1]]
    IN  serializeFrontmatter(metadata, parsed.body)

\* The content incrementUsageStat writes back, from the content it read.
IncrementedFile(content, stat) ==
    LET parsed == parseFrontmatter(content)
        metadata == [parsed.metadata EXCEPT !.usageStats[stat] = @ + 1]
    IN  serializeFrontmatter(metadata, parsed.body)

----------------------------------------------------------------------------
(* withFileLock and the operations run under it.                            *)
(*                                                                          *)
(* One event loop: a caller runs from one await to the next without         *)
(* interruption.  pc[p] names the await caller p is suspended at:           *)
(*   "idle"       has not called yet                                        *)
(*   "awaitLock"  `await existingLock`                                      *)
(*   "readFile", "writeFile"           inside incrementUsageStat's operation*)
(*   "access", "appendFile", "createFile"  inside appendLearning's operation*)
(*   "release"    the operation has settled; the finally block is next      *)
(*   "done"       withFileLock has settled                                  *)

NoLock == 0

\* How a file-system call may end (TRUE: it resolves) when its target exists
\* or not.
Outcomes(targetExists) == IF targetExists THEN BOOLEAN ELSE {FALSE}

\* The same for caller p of withFileLock: without file-system faults a call
\* rejects only when its target does not exist.
FsOutcomes(p, targetExists) ==
    IF p \in fsFaults THEN Outcomes(targetExists) ELSE {targetExists}

MemoryFileNames == {"api-design.md", "gotchas.md"}

LearningShapes ==
    {[type |-> "decision", fields |-> {"context", "rejected"}],
     [type |-> "gotcha", fields |-> {"why", "breaking"}]}

\* The calls caller p may make.  Every learning carries its caller's number as
\* content, so that every appended entry is distinct.
IncrementCalls ==
    {[fn |-> "incrementUsageStat", filePath |-> f, stat |-> s,
      learning |-> [category |-> "", type |-> "", content |-> "", fields |-> {}]] :
        f \in MemoryFileNames, s \in Stats}

AppendCalls(p) ==
    {[fn |-> "appendLearning", filePath |-> LearningFileName(c), stat |-> "",
      learning |-> [category |-> c, type |-> sh.type, content |-> ToString(p),
                    fields |-> sh.fields]] :
        c \in Categories, sh \in LearningShapes}

NoCall == [fn |-> "", filePath |-> "", stat |-> "",
           learning |-> [category |-> "", type |-> "", content |-> "", fields |-> {}]]

InOperation == {"readFile", "writeFile", "access", "appendFile", "createFile"}

\* The first await of the operation passed to withFileLock.
FirstAwait(call) == IF call.fn = "incrementUsageStat" THEN "readFile" ELSE "access"

AnyLock(filePath) ==
    IF \E f \in DOMAIN fileLocks : fileLocks[f] # NoLock
    THEN fileLocks[CHOOSE f \in DOMAIN fileLocks : fileLocks[f] # NoLock]
    ELSE NoLock

\* Lines 108-111: the lock promise to await, if any.
ExistingLock(filePath) == fileLocks[filePath]

\* Lines 113-121: register a new lock promise and start the operation.
StartOperation(p, call) ==
    /\ fileLocks' = [fileLocks EXCEPT ![call.filePath] = p]
    /\ pc' = [pc EXCEPT ![p] = FirstAwait(call)]

\* A call of incrementUsageStat or appendLearning, up to its first await.
\* Callers are numbered in the order in which they call.
Call(p) ==
    /\ pc[p] = "idle"
    /\ p > 1 => pc[p - 1] # "idle"
    /\ \E call \in IncrementCalls \cup AppendCalls(p) :
        /\ op' = [op EXCEPT ![p] = call]
        /\ after' = [after EXCEPT ![p] = appendsDone[call.filePath]]
        /\ overlapping' = (overlapping /\ (p > 1 => pc[1] \in InOperation))
        /\ requests' = Append(requests, p)
        /\ IF ExistingLock(call.filePath) # NoLock
           THEN /\ pc' = [pc EXCEPT ![p] = "awaitLock"]
                /\ waiters' = [waiters EXCEPT ![ExistingLock(call.filePath)] = Append(@, p)]
                /\ UNCHANGED fileLocks
           ELSE /\ StartOperation(p, call)
                /\ UNCHANGED waiters
    /\ UNCHANGED <<memDirExists, files, microq, pending, ret, files0, appendsDone, log,
                   fsFaults, rejected, loadVars, tasks, pureVars>>

\* The continuation of `await existingLock`, once that promise is resolved.
Resume(p) ==
    /\ pc[p] = "awaitLock"
    /\ microq # <<>> /\ Head(microq) = p
    /\ microq' = Tail(microq)
    /\ StartOperation(p, op[p])
    /\ UNCHANGED <<memDirExists, files, waiters, op, pending, ret, histVars, loadVars, tasks, pureVars>>

\* The file-system steps below are continuations of promises that settle
\* after the call was issued: each runs after the continuations queued before
\* it, hence `microq = <<>>`.

\* What the operation passed to withFileLock settles with after its
\* file-system call `call` has resolved (ok) or rejected.  incrementUsageStat
\* catches every rejection (lines 479-481); appendLearning catches those of
\* access and appendFile (line 590) and not that of the writeFile in its catch
\* block.
NothingSwallowed(call, ok) == IF ok THEN "ok" ELSE "error"

Settled(call, ok) == IF ok \/ call \in {"readFile", "writeFile"} THEN "ok" ELSE "error"

\* incrementUsageStat: readFile settles; parse, increment, serialize, writeFile.
\* A missing file makes readFile reject, which the catch swallows.
ReadFile(p) ==
    /\ pc[p] = "readFile"
    /\ microq = <<>>
    /\ \E ok \in FsOutcomes(p, files[op[p].filePath].exists) :
        IF ok
        THEN /\ pending' = [pending EXCEPT ![p] = IncrementedFile(files[op[p].filePath], op[p].stat)]
             /\ pc' = [pc EXCEPT ![p] = "writeFile"]
             /\ UNCHANGED <<ret, rejected>>
        ELSE /\ pc' = [pc EXCEPT ![p] = "release"]
             /\ ret' = [ret EXCEPT ![p] = Settled("readFile", FALSE)]
             /\ rejected' = [rejected EXCEPT ![p] = @ \cup {"readFile"}]
             /\ UNCHANGED pending
    /\ UNCHANGED <<memDirExists, files, fileLocks, waiters, microq, op, files0, appendsDone,
                   after, log, overlapping, fsFaults, requests, loadVars, tasks, pureVars>>

\* incrementUsageStat: writeFile settles.
WriteFile(p) ==
    /\ pc[p] = "writeFile"
    /\ microq = <<>>
    /\ \E ok \in FsOutcomes(p, TRUE) :
        /\ files' = IF ok THEN [files EXCEPT ![op[p].filePath] = pending[p]] ELSE files
        /\ ret' = [ret EXCEPT ![p] = Settled("writeFile", ok)]
        /\ rejected' = [rejected EXCEPT ![p] = IF ok THEN @ ELSE @ \cup {"writeFile"}]
    /\ pc' = [pc EXCEPT ![p] = "release"]
    /\ UNCHANGED <<memDirExists, fileLocks, waiters, microq, op, pending, files0, appendsDone,
                   after, log, overlapping, fsFaults, requests, loadVars, tasks, pureVars>>

\* appendLearning: which branch follows fsModule.access(filePath).
AlwaysCreate(fileExists) == "createFile"

BranchAfterAccess(fileExists) == IF fileExists THEN "appendFile" ELSE "createFile"

\* appendLearning: access settles.
Access(p) ==
    /\ pc[p] = "access"
    /\ microq = <<>>
    /\ \E ok \in FsOutcomes(p, files[op[p].filePath].exists) :
        /\ pc' = [pc EXCEPT ![p] = BranchAfterAccess(ok)]
        /\ rejected' = [rejected EXCEPT ![p] = IF ok THEN @ ELSE @ \cup {"access"}]
    /\ pending' = [pending EXCEPT ![p] =
          IF pc'[p] = "createFile" THEN NewLearningFile(op[p].learning) ELSE @]
    /\ UNCHANGED <<memDirExists, files, fileLocks, waiters, microq, op, ret, files0, appendsDone,
                   after, log, overlapping, fsFaults, requests, loadVars, tasks, pureVars>>

\* appendLearning: appendFile settles; a rejection lands in the same catch as
\* one of access.
AppendFile(p) ==
    /\ pc[p] = "appendFile"
    /\ microq = <<>>
    /\ \E ok \in FsOutcomes(p, TRUE) :
        IF ok
        THEN /\ files' = [files EXCEPT ![op[p].filePath] =
                             AppendedFile(@, formatLearning(op[p].learning))]
             /\ log' = [log EXCEPT ![op[p].filePath] = Append(@, formatLearning(op[p].learning))]
             /\ pc' = [pc EXCEPT ![p] = "release"]
             /\ ret' = [ret EXCEPT ![p] = Settled("appendFile", TRUE)]
             /\ UNCHANGED <<pending, rejected>>
        ELSE /\ pc' = [pc EXCEPT ![p] = "createFile"]
             /\ pending' = [pending EXCEPT ![p] = NewLearningFile(op[p].learning)]
             /\ rejected' = [rejected EXCEPT ![p] = @ \cup {"appendFile"}]
             /\ UNCHANGED <<files, log, ret>>
    /\ UNCHANGED <<memDirExists, fileLocks, waiters, microq, op, files0,
                   appendsDone, after, overlapping, fsFaults, requests, loadVars, tasks, pureVars>>

\* appendLearning: writeFile in the catch block settles; without the memory
\* directory it rejects, and nothing catches that.
CreateFile(p) ==
    /\ pc[p] = "createFile"
    /\ microq = <<>>
    /\ \E ok \in FsOutcomes(p, memDirExists) :
        /\ IF ok
           THEN /\ files' = [files EXCEPT ![op[p].filePath] = pending[p]]
                /\ log' = [log EXCEPT ![op[p].filePath] = Append(@, formatLearning(op[p].learning))]
                /\ UNCHANGED rejected
           ELSE /\ rejected' = [rejected EXCEPT ![p] = @ \cup {"createFile"}]
                /\ UNCHANGED <<files, log>>
        /\ ret' = [ret EXCEPT ![p] = Settled("createFile", ok)]
    /\ pc' = [pc EXCEPT ![p] = "release"]
    /\ UNCHANGED <<memDirExists, fileLocks, waiters, microq, op, pending, files0,
                   appendsDone, after, overlapping, fsFaults, requests, loadVars, tasks, pureVars>>

\* The release written after `await operation()` instead of in a finally
\* block: an operation that throws skips it.
ReleaseOnReturnOnly(p) ==
    /\ pc[p] = "release"
    /\ microq' = IF ret[p] = "error" THEN microq ELSE microq \o waiters[p]
    /\ waiters' = IF ret[p] = "error" THEN waiters ELSE [waiters EXCEPT ![p] = <<>>]
    /\ fileLocks' = IF ret[p] = "error" THEN fileLocks
                    ELSE [fileLocks EXCEPT ![op[p].filePath] = NoLock]
    /\ pc' = [pc EXCEPT ![p] = "done"]
    /\ appendsDone' = [appendsDone EXCEPT ![op[p].filePath] =
          IF op[p].fn = "appendLearning" /\ ret[p] = "ok" THEN @ + 1 ELSE @]
    /\ pending' = [pending EXCEPT ![p] = NoFile]
    /\ UNCHANGED <<memDirExists, files, op, ret, files0, after, log, overlapping,
                   fsFaults, rejected, requests, loadVars, tasks, pureVars>>

ReleaseWithoutResolve(p) ==
    /\ pc[p] = "release"
    /\ fileLocks' = [fileLocks EXCEPT ![op[p].filePath] = NoLock]
    /\ pc' = [pc EXCEPT ![p] = "done"]
    /\ appendsDone' = [appendsDone EXCEPT ![op[p].filePath] =
          IF op[p].fn = "appendLearning" /\ ret[p] = "ok" THEN @ + 1 ELSE @]
    /\ pending' = [pending EXCEPT ![p] = NoFile]
    /\ UNCHANGED <<memDirExists, files, microq, waiters, op, ret, files0, after, log,
                   overlapping, fsFaults, rejected, requests, loadVars, tasks, pureVars>>

\* Lines 122-125, the finally block: resolve the own lock promise, which
\* queues the continuations of its waiters in the order they began to wait,
\* and delete whatever entry the map holds for the path.
Release(p) ==
    /\ pc[p] = "release"
    /\ microq' = microq \o waiters[p]
    /\ waiters' = [waiters EXCEPT ![p] = <<>>]
    /\ fileLocks' = [fileLocks EXCEPT ![op[p].filePath] = NoLock]
    /\ pc' = [pc EXCEPT ![p] = "done"]
    /\ appendsDone' = [appendsDone EXCEPT ![op[p].filePath] =
          IF op[p].fn = "appendLearning" /\ ret[p] = "ok" THEN @ + 1 ELSE @]
    /\ pending' = [pending EXCEPT ![p] = NoFile]
    /\ UNCHANGED <<memDirExists, files, op, ret, files0, after, log, overlapping,
                   fsFaults, rejected, requests, loadVars, tasks, pureVars>>

----------------------------------------------------------------------------
(* Term extraction and scoring *)

\* text.toLowerCase().replace(/[^a-z0-9\s]/g, ' ').split(/\s+/) on the texts
\* that occur in the model.
Words(text) ==
    CASE text = "Add JWT refresh endpoint" -> {"add", "jwt", "refresh", "endpoint"}
      [] text = "Fix a bug in the UI" -> {"fix", "a", "bug", "in", "the", "ui"}
      [] text = "Add it" -> {"add", "it"}
      [] text = "Mistakes and edge cases to avoid" ->
             {"mistakes", "and", "edge", "cases", "to", "avoid"}
      [] text = "JWT auth patterns" -> {"jwt", "auth", "patterns"}
      [] text = "implementation decisions and patterns" ->
             {"implementation", "decisions", "and", "patterns"}
      [] text = "relevantTo:" -> {"relevantto"}
      [] text = "API Design" -> {"api", "design"}
      [] text = "api-design" -> {"api", "design"}
      [] text = "Gotchas" -> {"gotchas"}
      [] text = "edge-case" -> {"edge", "case"}
      [] text = "" -> {}
      [] OTHER -> {text}

stopWords ==
    {"a", "an", "the", "and", "or", "but", "in", "on", "at", "to", "for", "of",
     "with", "by", "is", "it", "this", "that", "be", "as", "are", "was", "were",
     "been", "being", "have", "has", "had", "do", "does", "did", "will", "would",
     "could", "should", "may", "might", "must", "shall", "can", "need", "dare",
     "ought", "used", "add", "create", "implement", "build", "make", "update",
     "fix", "change", "modify"}

\* The words of the model that are at most two characters long.
ShortWords == {"a", "an", "or", "in", "on", "at", "to", "of", "by", "is", "it", "be",
               "as", "do", "ui"}

extractTerms(text) == {w \in Words(text) : w \notin ShortWords /\ w \notin stopWords}

\* The terms of a summary kept by its parts.
SummaryTerms(summary) ==
    extractTerms(summary.text) \cup UNION {extractTerms(x) : x \in summary.list}

\* t.toLowerCase() on the tags of the model.
Lower(t) == IF t = "JWT" THEN "jwt" ELSE t

countMatches(arr1, arr2) ==
    Cardinality({t \in arr1 : Lower(t) \in {Lower(u) : u \in arr2}})

\* fileName.replace('.md', '').split(/[-_]/).filter((t) => t.length > 2)
CategoryTerms(fileName) ==
    CASE fileName = "gotchas.md" -> {"gotchas"}
      [] fileName = "auth-decisions.md" -> {"auth", "decisions"}
      [] fileName = "api.md" -> {"api"}
      [] OTHER -> {}

\* A score is the exact fraction <<numerator, denominator>>, denominator > 0.
\* calculateUsageScore: 1 when never loaded, else
\* 0.5 + (referenced/loaded)*0.3 + (successfulFeatures/referenced)*0.2.
calculateUsageScore(stats) ==
    IF stats.loaded = 0 THEN <<1, 1>>
    ELSE IF stats.referenced = 0 THEN <<5, 10>>
    ELSE <<5 * stats.loaded * stats.referenced
             + 3 * stats.referenced * stats.referenced
             + 2 * stats.successfulFeatures * stats.loaded,
           10 * stats.loaded * stats.referenced>>

\* A score that is NaN is kept as <<0, 0>>: Greater and Positive are false of it.
NaNScore == <<0, 0>>

\* Lines 308-334 of loadContextFiles: the relevance score of one file.  A
\* product with an importance of NaN is NaN.
Score(fileName, metadata, taskTerms) ==
    IF metadata.importance = NotANumber THEN NaNScore
    ELSE IF taskTerms # {}
    THEN LET tagScore == countMatches(metadata.tags, taskTerms) * 3
             relevantToScore == countMatches(metadata.relevantTo, taskTerms) * 2
             summaryScore == countMatches(SummaryTerms(metadata.summary), taskTerms)
             categoryScore == countMatches(CategoryTerms(fileName), taskTerms) * 4
             usageScore == calculateUsageScore(metadata.usageStats)
         IN  <<(tagScore + relevantToScore + summaryScore + categoryScore)
                  * metadata.importance * usageScore[1],
               100 * usageScore[2]>>
    ELSE <<metadata.importance, 100>>

Greater(a, b) == a[1] * b[2] > b[1] * a[2]

Positive(a) == a[1] > 0

\* scoredFiles.sort((a, b) => b.score - a.score), as Array.prototype.sort of
\* V8 runs it on fewer than 64 elements: it takes the longest leading run
\* (reversed when strictly descending under the comparator) and inserts each
\* later element by binary search.  With numbers for scores this is the
\* stable sort by descending score.  A difference with NaN is NaN, which the
\* sort reads as 0, "equal".

\* The sign of the comparator's result for (a, b).
Compare(a, b) ==
    IF Greater(b.score, a.score) THEN 1
    ELSE IF Greater(a.score, b.score) THEN -1
    ELSE 0

\* The last index of the run that starts at 1 and has reached i.
RECURSIVE RunEnd(_, _, _)
RunEnd(s, i, descending) ==
    IF i = Len(s) THEN i
    ELSE LET order == Compare(s[i + 1], s[i])
         IN  IF (descending /\ order >= 0) \/ (~descending /\ order < 0) THEN i
             ELSE RunEnd(s, i + 1, descending)

Reverse(s) == [i \in 1..Len(s) |-> s[Len(s) + 1 - i]]

\* Where pivot goes among a[left .. right-1].
RECURSIVE InsertionPoint(_, _, _, _)
InsertionPoint(a, pivot, left, right) ==
    IF left >= right THEN left
    ELSE LET mid == left + ((right - left) \div 2)
         IN  IF Compare(pivot, a[mid]) < 0
             THEN InsertionPoint(a, pivot, left, mid)
             ELSE InsertionPoint(a, pivot, mid + 1, right)

\* a[1 .. start-1] is in order; insert a[start], a[start+1], ...
RECURSIVE InsertRest(_, _)
InsertRest(a, start) ==
    IF start > Len(a) THEN a
    ELSE LET at == InsertionPoint(a, a[start], 1, start)
         IN  InsertRest(SubSeq(a, 1, at - 1) \o <<a[start]>> \o SubSeq(a, at, start - 1)
                            \o SubSeq(a, start + 1, Len(a)),
                        start + 1)

SortByScore(s) ==
    IF Len(s) < 2 THEN s
    ELSE LET descending == Compare(s[2], s[1]) < 0
             n == RunEnd(s, 2, descending)
             run == IF descending THEN Reverse(SubSeq(s, 1, n)) ELSE SubSeq(s, 1, n)
         IN  InsertRest(run \o SubSeq(s, n + 1, Len(s)), n + 1)

----------------------------------------------------------------------------
(* Selection policy, lines 349-374 of loadContextFiles *)

HighImportance(metadata) == metadata.importance >= 90

\* The loop without `selectedFiles.size < maxMemoryFiles`.
RECURSIVE AddWithoutCap(_, _, _, _)
AddWithoutCap(sorted, selected, step, maxMemoryFiles) ==
    IF sorted = <<>> THEN selected
    ELSE LET file == Head(sorted)
             qualifies == IF step = "importance" THEN file.metadata.importance >= 90
                          ELSE file.score[1] > 0
         IN  AddWithoutCap(Tail(sorted),
                 IF qualifies THEN selected \cup {file.fileName} ELSE selected,
                 step, maxMemoryFiles)

\* One of the two `for (const file of scoredFiles)` loops: add the files that
\* qualify while the selection is below maxMemoryFiles.
RECURSIVE AddWhileRoom(_, _, _, _)
AddWhileRoom(sorted, selected, step, maxMemoryFiles) ==
    IF sorted = <<>> THEN selected
    ELSE LET file == Head(sorted)
             qualifies == IF step = "importance" THEN HighImportance(file.metadata)
                          ELSE Positive(file.score)
         IN  AddWhileRoom(Tail(sorted),
                 IF qualifies /\ Cardinality(selected) < maxMemoryFiles
                 THEN selected \cup {file.fileName} ELSE selected,
                 step, maxMemoryFiles)

Names(s) == {s[i].fileName : i \in 1..Len(s)}

\* The policy without its first step.
SelectWithoutGotchas(sorted, taskTerms, maxMemoryFiles) ==
    IF maxMemoryFiles > 0
    THEN LET important == AddWhileRoom(sorted, {}, "importance", maxMemoryFiles)
         IN  IF taskTerms # {}
             THEN AddWhileRoom(sorted, important, "score", maxMemoryFiles)
             ELSE important
    ELSE {}

\* The policy with its second and third steps exchanged.
SelectByScoreFirst(sorted, taskTerms, maxMemoryFiles) ==
    IF maxMemoryFiles > 0
    THEN LET gotchas == IF "gotchas.md" \in Names(sorted) THEN {"gotchas.md"} ELSE {}
             scoring == IF taskTerms # {}
                        THEN AddWhileRoom(sorted, gotchas, "score", maxMemoryFiles)
                        ELSE gotchas
         IN  AddWhileRoom(sorted, scoring, "importance", maxMemoryFiles)
    ELSE {}

\* The policy with its third step taken whether or not there are task terms.
SelectWithoutTaskCheck(sorted, taskTerms, maxMemoryFiles) ==
    IF maxMemoryFiles > 0
    THEN LET gotchas == IF "gotchas.md" \in Names(sorted) THEN {"gotchas.md"} ELSE {}
             important == AddWhileRoom(sorted, gotchas, "importance", maxMemoryFiles)
         IN  AddWhileRoom(sorted, important, "score", maxMemoryFiles)
    ELSE {}

SelectFiles(sorted, taskTerms, maxMemoryFiles) ==
    IF maxMemoryFiles > 0
    THEN LET gotchas == IF "gotchas.md" \in Names(sorted) THEN {"gotchas.md"} ELSE {}
             important == AddWhileRoom(sorted, gotchas, "importance", maxMemoryFiles)
         IN  IF taskTerms # {}
             THEN AddWhileRoom(sorted, important, "score", maxMemoryFiles)
             ELSE important
    ELSE {}

----------------------------------------------------------------------------
(* loadContextFiles.                                                        *)
(*                                                                          *)
(* lpc names the part of the function that runs next:                       *)
(*   "context"     lines 224-259, the context files                         *)
(*   "initMemory"  lines 262-272, initializeMemoryFolder                    *)
(*   "scan"        lines 274-374, read, score, sort and select              *)
(*   "load"        lines 377-394, one selected file per step                *)
(*   "build"       lines 405-421, the prompt and the return                 *)
(* Every file-system call may reject; a call on something that does not     *)
(* exist must.                                                              *)

\* The try blocks of loadContextFiles whose catch is the last one between a
\* rejected call and the caller.
TryBlocks == {"context", "initializeMemory", "memory"}

NoTryAroundInitialize(block) == block # "initializeMemory"

Caught(block) == block \in TryBlocks

\* Where the function goes when `block` threw.
AfterThrow(block, next) ==
    IF Caught(block)
    THEN /\ lpc' = next
         /\ outcome' = outcome
    ELSE /\ lpc' = "done"
         /\ outcome' = "rejected"

\* ---- context files

\* (lower.endsWith('.md') || lower.endsWith('.txt')) && f !== 'context-metadata.json'
IsTextFile(f) == f \in {"rules.md", "NOTES.TXT"}

ContextContent(f) == IF f = "rules.md" THEN "Use pnpm, never npm" ELSE "notes"

\* loadContextMetadata, by the state of context-metadata.json:
\*   "absent" (readFile rejects), "malformed" (JSON.parse throws): { files: {} };
\*   "ok": the parsed object, which describes rules.md;
\*   "noFilesKey": valid JSON without a `files` member, returned as parsed.
loadContextMetadata(state) ==
    IF state \in {"absent", "malformed"} THEN [hasFiles |-> TRUE, described |-> {}]
    ELSE IF state = "ok" THEN [hasFiles |-> TRUE, described |-> {"rules.md"}]
    ELSE [hasFiles |-> FALSE, described |-> {}]

\* Lines 242-255: the loop over textFiles.  A rejected readFile and a
\* TypeError of metadata.files[fileName] both land in the catch of line 252.
RECURSIVE ReadContextFiles(_, _, _)
ReadContextFiles(textFiles, metadata, unreadable) ==
    IF textFiles = <<>> THEN <<>>
    ELSE LET f == Head(textFiles)
             rest == ReadContextFiles(Tail(textFiles), metadata, unreadable)
         IN  IF f \in unreadable \/ ~metadata.hasFiles THEN rest
             ELSE <<[name |-> f,
                     path |-> <<".automaker", "context", f>>,
                     content |-> ContextContent(f),
                     description |-> IF f \in metadata.described THEN "Build rules" ELSE ""]>>
                  \o rest

SeqRange(s) == {s[i] : i \in 1..Len(s)}

LoadContext ==
    /\ lpc = "context"
    /\ \E accessOk \in Outcomes(ctxDir.exists),
          readdirOk \in BOOLEAN :
        LET textFiles == SelectSeq(ctxDir.listing, IsTextFile) IN
        IF accessOk /\ readdirOk
        THEN \E unreadable \in SUBSET SeqRange(textFiles) :
                /\ outFiles' = ReadContextFiles(textFiles,
                                   loadContextMetadata(ctxDir.metadata), unreadable)
                /\ failed' = [failed EXCEPT !.reads = @ \cup unreadable]
                /\ lpc' = "initMemory"
                /\ UNCHANGED outcome
        ELSE /\ failed' = [failed EXCEPT !.calls = @ \cup {"context"}]
             /\ AfterThrow("context", "initMemory")
             /\ UNCHANGED outFiles
    /\ UNCHANGED <<memDirExists, files, lockVars, histVars, tasks, pureVars, opts, ctxDir, memListing,
                   scoredFiles, selectedFiles, memoryFiles, formattedPrompt>>

\* ---- initializeMemoryFolder

IndexMetadata ==
    [tags |-> {"index", "overview"},
     summary |-> Text("Overview of project memory categories"),
     relevantTo |-> {"project", "memory", "overview"},
     importance |-> 50,
     relatedFiles |-> {},
     usageStats |-> ZeroStats]

GotchasMetadata ==
    [tags |-> {"gotcha", "mistake", "edge-case", "bug", "warning"},
     summary |-> Text("Mistakes and edge cases to avoid"),
     relevantTo |-> {"error", "bug", "fix", "issue", "problem"},
     importance |-> 90,
     relatedFiles |-> {},
     usageStats |-> ZeroStats]

IndexContent ==
    serializeFrontmatter(IndexMetadata,
        <<Heading("Project Memory Index"), Prose("This folder contains agent learnings")>>)

GotchasContent ==
    serializeFrontmatter(GotchasMetadata,
        <<Heading("Gotchas"), Prose("Mistakes and edge cases to avoid."), Prose("---")>>)

\* The calls of initializeMemoryFolder after a rejected access, in order; the
\* first that rejects ends the function with that error.
InitCalls == <<"mkdir", "writeIndex", "writeGotchas">>

\* initializeMemoryFolder, entered from lines 266-272.  `failAt` is the index
\* in InitCalls of the call that rejects, 0 for none.
InitializeMemory ==
    /\ lpc = "initMemory"
    /\ IF ~(opts.includeMemory /\ opts.initializeMemory)
       THEN /\ lpc' = IF opts.includeMemory THEN "scan" ELSE "build"
            /\ UNCHANGED <<memDirExists, files, outcome, failed>>
       ELSE \E accessOk \in Outcomes(memDirExists), failAt \in 0..Len(InitCalls) :
            IF accessOk
            THEN /\ lpc' = "scan"
                 /\ UNCHANGED <<memDirExists, files, outcome, failed>>
            ELSE /\ memDirExists' = (memDirExists \/ failAt # 1)
                 /\ files' = [f \in DOMAIN files |->
                        IF f = "_index.md" /\ failAt \notin {1, 2} THEN IndexContent
                        ELSE IF f = "gotchas.md" /\ failAt = 0 THEN GotchasContent
                        ELSE files[f]]
                 /\ failed' = [failed EXCEPT !.calls =
                        @ \cup (IF memDirExists THEN {"access"} ELSE {})
                          \cup (IF failAt # 0 THEN {InitCalls[failAt]} ELSE {})]
                 /\ IF failAt # 0
                    THEN AfterThrow("initializeMemory", "scan")
                    ELSE lpc' = "scan" /\ UNCHANGED outcome
    /\ UNCHANGED <<lockVars, histVars, tasks, pureVars, opts, ctxDir, memListing, outFiles, scoredFiles,
                   selectedFiles, memoryFiles, formattedPrompt>>

\* ---- memory files

\* lower.endsWith('.md') && lower !== '_index.md'
IsMemoryMd(f) == f \in {"gotchas.md", "auth-decisions.md", "api.md"}

NoTask == [given |-> FALSE, title |-> "", description |-> ""]

\* Lines 285-287
TaskTerms(taskContext) ==
    IF taskContext.given
    THEN {w \in Words(taskContext.title) \cup Words(taskContext.description) :
             w \notin ShortWords /\ w \notin stopWords}
    ELSE {}

\* Lines 298-340: the loop that fills scoredFiles, in directory order.
RECURSIVE ScoreFiles(_, _, _)
ScoreFiles(names, unreadable, taskTerms) ==
    IF names = <<>> THEN <<>>
    ELSE LET fileName == Head(names)
             parsed == parseFrontmatter(files[fileName])
             rest == ScoreFiles(Tail(names), unreadable, taskTerms)
         IN  IF fileName \in unreadable \/ TrimIsEmpty(parsed.body) THEN rest
             ELSE <<[fileName |-> fileName,
                     body |-> parsed.body,
                     metadata |-> parsed.metadata,
                     score |-> Score(fileName, parsed.metadata, taskTerms)]>> \o rest

\* readdir(memoryDir): the files that exist, in the directory's order.
MemoryDirEntries == SelectSeq(memListing, LAMBDA f : files[f].exists)

ScanMemory ==
    /\ lpc = "scan"
    /\ \E accessOk \in Outcomes(memDirExists), readdirOk \in BOOLEAN :
        LET memoryMdFiles == SelectSeq(MemoryDirEntries, IsMemoryMd)
            taskTerms == TaskTerms(opts.taskContext)
        IN
        IF accessOk /\ readdirOk
        THEN \E unreadable \in SUBSET SeqRange(memoryMdFiles) :
                LET sorted == SortByScore(ScoreFiles(memoryMdFiles, unreadable, taskTerms))
                    selected == SelectFiles(sorted, taskTerms, opts.maxMemoryFiles)
                IN  /\ scoredFiles' = sorted
                    /\ selectedFiles' = selected
                    /\ failed' = [failed EXCEPT !.reads = @ \cup unreadable]
                    /\ lpc' = IF selected = {} THEN "build" ELSE "load"
                    /\ UNCHANGED outcome
        ELSE /\ failed' = [failed EXCEPT !.calls = @ \cup {"memory"}]
             /\ AfterThrow("memory", "build")
             /\ UNCHANGED <<scoredFiles, selectedFiles>>
    /\ UNCHANGED <<memDirExists, files, lockVars, histVars, tasks, pureVars, opts, ctxDir, memListing,
                   outFiles, memoryFiles, formattedPrompt>>

\* fileName.replace('.md', '')
CategoryOf(fileName) ==
    CASE fileName = "gotchas.md" -> "gotchas"
      [] fileName = "auth-decisions.md" -> "auth-decisions"
      [] fileName = "api.md" -> "api"
      [] OTHER -> fileName

\* The selected files not yet pushed to memoryFiles, in the order of scoredFiles.
ToLoad ==
    SelectSeq(scoredFiles,
        LAMBDA file : /\ file.fileName \in selectedFiles
                      /\ \A i \in 1..Len(memoryFiles) : memoryFiles[i].name # file.fileName)

\* One round of the loop of lines 377-394 for a selected file: push it, then
\* incrementUsageStat(filePath, 'loaded').  No other caller holds a lock here,
\* so withFileLock runs the operation at once; a rejected readFile or
\* writeFile ends in the catch of incrementUsageStat.
LoadSelected ==
    /\ lpc = "load"
    /\ ToLoad # <<>>
    /\ LET file == Head(ToLoad) IN
        /\ memoryFiles' = Append(memoryFiles,
              [name |-> file.fileName,
               path |-> <<".automaker", "memory", file.fileName>>,
               content |-> file.body,
               category |-> CategoryOf(file.fileName)])
        /\ \E readOk \in Outcomes(files[file.fileName].exists), writeOk \in BOOLEAN :
              /\ files' = IF readOk /\ writeOk
                          THEN [files EXCEPT ![file.fileName] = IncrementedFile(@, "loaded")]
                          ELSE files
              /\ failed' = [failed EXCEPT !.calls =
                      @ \cup (IF readOk /\ writeOk THEN {} ELSE {"usageStat"})]
        /\ lpc' = IF Len(ToLoad) = 1 THEN "build" ELSE "load"
    /\ UNCHANGED <<memDirExists, lockVars, histVars, tasks, pureVars, opts, ctxDir, memListing, outFiles,
                   scoredFiles, selectedFiles, formattedPrompt, outcome>>

\* buildContextPrompt / buildMemoryPrompt: '' for no files, else one section.
buildContextPrompt(ctxFiles) ==
    IF ctxFiles = <<>> THEN <<>>
    ELSE <<[title |-> "# Project Context Files",
            entries |-> [i \in 1..Len(ctxFiles) |-> ctxFiles[i].content]]>>

buildMemoryPrompt(memFiles) ==
    IF memFiles = <<>> THEN <<>>
    ELSE <<[title |-> "# Project Memory",
            entries |-> [i \in 1..Len(memFiles) |-> memFiles[i].content]]>>

\* Lines 405-421
BuildPrompt ==
    /\ lpc = "build"
    /\ formattedPrompt' = buildContextPrompt(outFiles) \o buildMemoryPrompt(memoryFiles)
    /\ outcome' = "resolved"
    /\ lpc' = "done"
    /\ UNCHANGED <<memDirExists, files, lockVars, histVars, tasks, pureVars, opts, ctxDir, memListing,
                   outFiles, scoredFiles, selectedFiles, memoryFiles, failed>>

LoadNext ==
    \/ LoadContext
    \/ InitializeMemory
    \/ ScanMemory
    \/ LoadSelected
    \/ BuildPrompt

----------------------------------------------------------------------------
(* Initial states *)

\* The contents a memory file may have when the callers start: none; notes
\* written by hand, without frontmatter; a file with frontmatter that has
\* been loaded and referenced before.
InitialContents ==
    {NoFile,
     MemoryFile(FALSE, createDefaultMetadata, <<Blank, Prose("notes")>>),
     MemoryFile(TRUE,
                [GotchasMetadata EXCEPT !.usageStats =
                    [loaded |-> 2, referenced |-> 1, successfulFeatures |-> 1]],
                <<Heading("Gotchas"), Prose("lessons")>>)}

\* The loadContextFiles variables when no such call is modelled.
LoadIdle ==
    /\ lpc = "off"
    /\ opts = <<>>
    /\ ctxDir = <<>>
    /\ memListing = <<>>
    /\ outFiles = <<>>
    /\ scoredFiles = <<>>
    /\ selectedFiles = {}
    /\ memoryFiles = <<>>
    /\ formattedPrompt = <<>>
    /\ outcome = "pending"
    /\ failed = [calls |-> {}, reads |-> {}]

\* No pure function is being applied.
PureIdle == arg = <<>> /\ results = <<>>

\* No agent tasks are specified.
NoTasks == tasks = <<>>

\* The callers of withFileLock before any call.
CallersStart ==
    /\ PureIdle
    /\ NoTasks
    /\ memDirExists \in BOOLEAN
    /\ files \in [MemoryFileNames -> InitialContents]
    /\ ~memDirExists => \A f \in MemoryFileNames : files[f] = NoFile
    /\ fileLocks = [f \in MemoryFileNames |-> NoLock]
    /\ waiters = [p \in Callers |-> <<>>]
    /\ microq = <<>>
    /\ pc = [p \in Callers |-> "idle"]
    /\ op = [p \in Callers |-> NoCall]
    /\ pending = [p \in Callers |-> NoFile]
    /\ ret = [p \in Callers |-> "none"]
    /\ files0 = files
    /\ appendsDone = [f \in MemoryFileNames |-> 0]
    /\ after = [p \in Callers |-> 0]
    /\ log = [f \in MemoryFileNames |-> <<>>]
    /\ overlapping = TRUE
    /\ rejected = [p \in Callers |-> {}]
    /\ requests = <<>>
    /\ LoadIdle

\* File-system calls reject only for want of their target.
Init == CallersStart /\ fsFaults = {}

\* Any file-system call of the first caller may reject.
InitFaults == CallersStart /\ fsFaults = {1}

Next ==
    \E p \in Callers :
        \/ Call(p)
        \/ Resume(p)
        \/ ReadFile(p)
        \/ WriteFile(p)
        \/ Access(p)
        \/ AppendFile(p)
        \/ CreateFile(p)
        \/ Release(p)

Spec == Init /\ [][Next]_vars

SpecFaults == InitFaults /\ [][Next]_vars

----------------------------------------------------------------------------
(* One loadContextFiles call *)

MaxMemoryFilesBound == 3

LoadFileNames == {"_index.md", "gotchas.md", "auth-decisions.md", "api.md"}

ListingOrders ==
    {<<"_index.md", "api.md", "auth-decisions.md", "gotchas.md">>,
     <<"gotchas.md", "auth-decisions.md", "_index.md", "api.md">>,
     <<"api.md", "gotchas.md", "auth-decisions.md", "_index.md">>}

TaskContexts ==
    {NoTask,
     [given |-> TRUE, title |-> "Add JWT refresh endpoint", description |-> ""],
     [given |-> TRUE, title |-> "Fix a bug in the UI", description |-> "API Design"],
     [given |-> TRUE, title |-> "Add it", description |-> ""]}

AuthMetadata ==
    [tags |-> {"auth", "JWT"},
     summary |-> Text("JWT auth patterns"),
     relevantTo |-> {},
     importance |-> 70,
     relatedFiles |-> {},
     usageStats |-> ZeroStats]

\* What each memory file may hold when loadContextFiles is called.
AuthContent == MemoryFile(TRUE, AuthMetadata, <<Prose("Use RS256 for signing")>>)

UsedAuthContent ==
    MemoryFile(TRUE,
               [AuthMetadata EXCEPT !.usageStats =
                   [loaded |-> 4, referenced |-> 2, successfulFeatures |-> 1]],
               <<Prose("Use RS256 for signing")>>)

EmptyImportantContent ==
    MemoryFile(TRUE, [createDefaultMetadata EXCEPT !.importance = 100], <<Blank>>)

ImportantContent ==
    MemoryFile(TRUE, [createDefaultMetadata EXCEPT !.importance = 95],
               <<Prose("Never force-push")>>)

\* A gotchas.md whose header was edited by hand to "importance: ." .
DotImportanceContent ==
    MemoryFile(TRUE, [GotchasMetadata EXCEPT !.importance = NotANumber],
               <<Heading("Gotchas"), Prose("lessons")>>)

\* A file of white space only.
BlankContent == MemoryFile(FALSE, createDefaultMetadata, <<Blank, Blank>>)

PlainContent == MemoryFile(FALSE, createDefaultMetadata, <<Prose("notes")>>)

SelectContents(f) ==
    CASE f = "_index.md" -> {NoFile, IndexContent}
      [] f = "gotchas.md" -> {NoFile, GotchasContent, EmptyImportantContent, PlainContent,
                              DotImportanceContent}
      [] f = "auth-decisions.md" -> {NoFile, AuthContent, UsedAuthContent, ImportantContent}
      [] OTHER -> {NoFile, UsedAuthContent, ImportantContent, PlainContent,
                   EmptyImportantContent, BlankContent}

CtxListings ==
    {<<>>,
     <<"context-metadata.json", "logo.png">>,
     <<"NOTES.TXT", "context-metadata.json", "logo.png", "rules.md">>}

NoCtxDir == [exists |-> FALSE, listing |-> <<>>, metadata |-> "absent"]

CtxDirs ==
    {NoCtxDir} \cup
    {[exists |-> TRUE, listing |-> l, metadata |-> m] :
        l \in CtxListings, m \in {"absent", "malformed", "noFilesKey", "ok"}}

Options ==
    {[includeMemory |-> im, initializeMemory |-> init, taskContext |-> tc,
      maxMemoryFiles |-> n] :
        im \in BOOLEAN, init \in BOOLEAN, tc \in TaskContexts,
        n \in 0..MaxMemoryFilesBound}

\* The callers of Spec take no part here.
LockIdle ==
    /\ fileLocks = [f \in MemoryFileNames |-> NoLock]
    /\ waiters = [p \in Callers |-> <<>>]
    /\ microq = <<>>
    /\ pc = [p \in Callers |-> "idle"]
    /\ op = [p \in Callers |-> NoCall]
    /\ pending = [p \in Callers |-> NoFile]
    /\ ret = [p \in Callers |-> "none"]
    /\ appendsDone = [f \in MemoryFileNames |-> 0]
    /\ after = [p \in Callers |-> 0]
    /\ log = [f \in MemoryFileNames |-> <<>>]
    /\ overlapping = TRUE
    /\ fsFaults = {}
    /\ rejected = [p \in Callers |-> {}]
    /\ requests = <<>>

LoadStart ==
    /\ lpc = "context"
    /\ outFiles = <<>>
    /\ scoredFiles = <<>>
    /\ selectedFiles = {}
    /\ memoryFiles = <<>>
    /\ formattedPrompt = <<>>
    /\ outcome = "pending"
    /\ failed = [calls |-> {}, reads |-> {}]

\* Any options and any context directory, over a few memory directories.
MemoryFixtures ==
    {[f \in LoadFileNames |-> NoFile],
     [f \in LoadFileNames |->
        IF f = "_index.md" THEN IndexContent
        ELSE IF f = "gotchas.md" THEN GotchasContent ELSE NoFile],
     [f \in LoadFileNames |->
        IF f = "gotchas.md" THEN GotchasContent
        ELSE IF f = "auth-decisions.md"
             THEN AuthContent
             ELSE NoFile]}

InitLoad ==
    /\ PureIdle
    /\ NoTasks
    /\ opts \in Options
    /\ ctxDir \in CtxDirs
    /\ files \in MemoryFixtures
    /\ memDirExists \in BOOLEAN
    /\ ~memDirExists => files = [f \in LoadFileNames |-> NoFile]
    /\ memListing \in ListingOrders
    /\ files0 = files
    /\ LockIdle
    /\ LoadStart

SpecLoad == InitLoad /\ [][LoadNext]_vars

\* Memory enabled and no context directory, over any memory directory.
InitSelect ==
    /\ PureIdle
    /\ NoTasks
    /\ opts \in {o \in Options : o.includeMemory}
    /\ ctxDir = NoCtxDir
    /\ memDirExists \in BOOLEAN
    /\ files \in [LoadFileNames -> UNION {SelectContents(f) : f \in LoadFileNames}]
    /\ \A f \in LoadFileNames : files[f] \in SelectContents(f)
    /\ ~memDirExists => files = [f \in LoadFileNames |-> NoFile]
    /\ memListing \in ListingOrders
    /\ files0 = files
    /\ LockIdle
    /\ LoadStart

SpecSelect == InitSelect /\ [][LoadNext]_vars

----------------------------------------------------------------------------
(* Claims about withFileLock, incrementUsageStat and appendLearning (Spec)  *)

AllDone == \A p \in Callers : pc[p] = "done"

\* The counter as parseFrontmatter reads it from the stored file.
StoredStat(content, stat) == parseFrontmatter(content).metadata.usageStats[stat]

\* C1: when every caller has called incrementUsageStat for the same counter of
\* the same file, which existed from the start, every call arrived while the
\* first was in flight, and all calls have completed, the stored counter is
\* higher than it started by the number of callers.
C1_NoLostIncrement ==
    \A f \in MemoryFileNames, s \in Stats :
        (/\ AllDone
         /\ overlapping
         /\ files0[f].exists
         /\ \A p \in Callers : /\ op[p].fn = "incrementUsageStat"
                               /\ op[p].filePath = f
                               /\ op[p].stat = s)
        => StoredStat(files[f], s) = StoredStat(files0[f], s) + NumCallers

\* C2: at most one operation passed to withFileLock for a path is between its
\* start and its completion, in the arrival order where every call after the
\* first arrives while the first caller's operation is in flight.
C2_MutualExclusion ==
    overlapping =>
        \A f \in MemoryFileNames :
            Cardinality({p \in Callers : pc[p] \in InOperation /\ op[p].filePath = f}) <= 1

\* The learnings written to f by appendLearning calls that have completed, in
\* the order they were written.
CompletedEntries(f) ==
    SelectSeq(log[f],
        LAMBDA e : \E p \in Callers : /\ pc[p] = "done"
                                      /\ ret[p] = "ok"
                                      /\ op[p].fn = "appendLearning"
                                      /\ op[p].filePath = f
                                      /\ formatLearning(op[p].learning) = e)

\* s occurs in t as a subsequence: every element, unchanged and in order.
RECURSIVE IsSubsequence(_, _)
IsSubsequence(s, t) ==
    IF s = <<>> THEN TRUE
    ELSE IF t = <<>> THEN FALSE
    ELSE IF Head(s) = Head(t) THEN IsSubsequence(Tail(s), Tail(t))
    ELSE IsSubsequence(s, Tail(t))

\* C3: every learning whose appendLearning call has completed is in the file,
\* unmodified, and in the order in which the learnings were appended, when the
\* appendLearning and incrementUsageStat calls all arrive while the first
\* caller's operation is in flight.
C3_LearningsKept ==
    overlapping =>
        \A f \in MemoryFileNames : IsSubsequence(CompletedEntries(f), files[f].body)

\* C4, the case: the memory directory exists, file f does not; callers 1 and
\* 2 call appendLearning for f, caller 2 after the call of caller 1 has
\* completed; no other caller touches f.
TwoSequentialAppends(f) ==
    /\ memDirExists
    /\ ~files0[f].exists
    /\ \A p \in {1, 2} : op[p].fn = "appendLearning" /\ op[p].filePath = f
    /\ after[2] = 1
    /\ \A q \in Callers \ {1, 2} : op[q].filePath # f

\* The file a first appendLearning call is to create.
SeededFile(learning) ==
    [exists |-> TRUE,
     fm |-> TRUE,
     meta |-> [tags |-> {CategoryOrGeneral(learning.category)},
               summary |-> [text |-> "implementation decisions and patterns",
                            list |-> {learning.category}],
               relevantTo |-> {CategoryOrGeneral(learning.category)},
               importance |-> 70,
               relatedFiles |-> {},
               usageStats |-> ZeroStats],
     body |-> <<Heading(learning.category), formatLearning(learning)>>]

\* C4: of two sequential appendLearning calls for a file that does not exist,
\* the first creates it with the seeded metadata, the category heading and the
\* first entry; the second never takes the creating branch and leaves the file
\* as it was with the second entry appended after the first.
C4_CreateOnceThenAppend ==
    \A f \in MemoryFileNames :
        TwoSequentialAppends(f) =>
            /\ pc[2] # "createFile"
            /\ pc[2] \in {"access", "appendFile"} => files[f] = SeededFile(op[1].learning)
            /\ pc[2] \in {"release", "done"} =>
                  files[f] = [SeededFile(op[1].learning) EXCEPT
                                 !.body = Append(@, formatLearning(op[2].learning))]

C4_Witness ==
    \E f \in MemoryFileNames :
        TwoSequentialAppends(f) /\ pc[2] = "done" /\ ret[2] = "ok" /\ Len(files[f].body) = 3

----------------------------------------------------------------------------
(* Claims about the selection of memory files (SpecSelect)                  *)

Finished == lpc = "done"

\* The names of the memory files loadContextFiles returns.
Returned == {memoryFiles[i].name : i \in 1..Len(memoryFiles)}

\* access(memoryDir), readdir(memoryDir) and readFile of f did not reject.
ReadWithoutFault(f) == "memory" \notin failed.calls /\ f \notin failed.reads

\* The body of the content has a line that is not white space.
HasText(content) ==
    \E i \in 1..Len(parseFrontmatter(content).body) :
        parseFrontmatter(content).body[i] # Blank

\* C5: with maxMemoryFiles > 0 and a gotchas.md in the memory directory whose
\* body is not empty after trimming, the call returns gotchas.md in
\* memoryFiles; with maxMemoryFiles = 1 it returns gotchas.md alone.
C5_GotchasAlwaysSelected ==
    (/\ Finished
     /\ opts.maxMemoryFiles > 0
     /\ files0["gotchas.md"].exists
     /\ HasText(files0["gotchas.md"])
     /\ ReadWithoutFault("gotchas.md"))
    => /\ "gotchas.md" \in Returned
       /\ opts.maxMemoryFiles = 1 => Returned = {"gotchas.md"}

\* gotchas.md is returned alone although another file has the higher
\* importance and score.
C5_Witness ==
    /\ Finished
    /\ opts.maxMemoryFiles = 1
    /\ Returned = {"gotchas.md"}
    /\ files0["gotchas.md"] = PlainContent
    /\ \E i \in 1..Len(scoredFiles) :
          /\ scoredFiles[i].fileName # "gotchas.md"
          /\ scoredFiles[i].metadata.importance >= 90
          /\ Greater(scoredFiles[i].score, scoredFiles[Len(scoredFiles)].score)
          /\ scoredFiles[Len(scoredFiles)].fileName = "gotchas.md"

\* The memory files of the directory with importance >= 0.9 and a body that
\* is not empty, read without a fault.
ImportantCandidates ==
    {f \in LoadFileNames :
        /\ IsMemoryMd(f)
        /\ files0[f].exists
        /\ parseFrontmatter(files0[f]).metadata.importance >= 90
        /\ HasText(files0[f])
        /\ ReadWithoutFault(f)}

\* C6: memoryFiles never holds more than maxMemoryFiles files, and holds
\* exactly maxMemoryFiles of them when at least that many candidates have
\* importance >= 0.9 and a body that is not empty.
C6_CapOnSelection ==
    /\ Len(memoryFiles) <= opts.maxMemoryFiles
    /\ Cardinality(selectedFiles) <= opts.maxMemoryFiles
    /\ (Finished /\ Cardinality(ImportantCandidates) >= opts.maxMemoryFiles)
          => /\ Len(memoryFiles) = opts.maxMemoryFiles
             /\ Cardinality(Returned) = opts.maxMemoryFiles

\* Three candidates of high importance and room for two.
C6_Witness ==
    /\ Finished
    /\ opts.maxMemoryFiles = 2
    /\ Cardinality(ImportantCandidates) = 3
    /\ Len(memoryFiles) = 2

\* C7: a memory file whose body is empty after trimming is not returned in
\* memoryFiles and its stored content, the loaded counter included, is as it
\* was before the call.
C7_EmptyBodyNeverLoaded ==
    \A f \in LoadFileNames :
        (files[f].exists /\ ~HasText(files[f]))
            => f \notin Returned /\ files[f] = files0[f]

\* An empty gotchas.md of importance 1.0 is left out of a selection that has
\* room for it.
C7_Witness ==
    /\ Finished
    /\ files0["gotchas.md"] = EmptyImportantContent
    /\ files["gotchas.md"] = EmptyImportantContent
    /\ ReadWithoutFault("gotchas.md")
    /\ Returned # {}
    /\ Len(memoryFiles) < opts.maxMemoryFiles

\* The file at position i of scoredFiles has importance >= 0.9.
ImportantAt(i) == scoredFiles[i].metadata.importance >= 90

\* What the cap holds before the file at position i is considered: gotchas.md
\* and the files of importance >= 0.9 that sort before it.
AheadOf(i) ==
    ({"gotchas.md"} \cap Names(scoredFiles))
        \cup {scoredFiles[j].fileName : j \in {k \in 1..(i - 1) : ImportantAt(k)}}

\* C8: a candidate of importance >= 0.9 is returned whenever gotchas.md and
\* the candidates of importance >= 0.9 sorted before it leave room under the
\* cap, whatever its score; and no file of lower importance, gotchas.md apart,
\* is returned while a candidate of importance >= 0.9 is not.
C8_ImportanceBeforeScore ==
    Finished =>
        \A i \in 1..Len(scoredFiles) :
            ImportantAt(i) =>
                /\ Cardinality(AheadOf(i) \ {scoredFiles[i].fileName}) < opts.maxMemoryFiles
                      => scoredFiles[i].fileName \in Returned
                /\ scoredFiles[i].fileName \notin Returned
                      => \A j \in 1..Len(scoredFiles) :
                            (~ImportantAt(j) /\ scoredFiles[j].fileName # "gotchas.md")
                                => scoredFiles[j].fileName \notin Returned

\* A file of importance >= 0.9 with score 0 is returned and a file of lower
\* importance with a positive score is not.
C8_Witness ==
    /\ Finished
    /\ \E i, j \in 1..Len(scoredFiles) :
          /\ ImportantAt(i)
          /\ scoredFiles[i].score[1] = 0
          /\ scoredFiles[i].fileName \in Returned
          /\ ~ImportantAt(j)
          /\ scoredFiles[j].score[1] > 0
          /\ scoredFiles[j].fileName \notin Returned

----------------------------------------------------------------------------
(* Claims about one loadContextFiles call (SpecLoad)                        *)

\* C9: whatever file-system call rejects, a finished loadContextFiles call
\* has resolved, with files, memoryFiles and formattedPrompt built from what
\* was read.
C9_NeverRejects ==
    Finished =>
        /\ outcome = "resolved"
        /\ formattedPrompt = buildContextPrompt(outFiles) \o buildMemoryPrompt(memoryFiles)

\* The call resolves after initializeMemoryFolder threw and a usage-stat
\* update failed.
C9_Witness ==
    /\ Finished
    /\ outcome = "resolved"
    /\ failed.calls \cap {"mkdir", "writeIndex", "writeGotchas"} # {}
    /\ "usageStat" \in failed.calls

\* C10: when the context directory was listed and every file read without a
\* fault, files holds every .md and .txt file of the directory, in order,
\* with its content.
C10_EveryContextFileReturned ==
    (/\ Finished
     /\ ctxDir.exists
     /\ "context" \notin failed.calls
     /\ failed.reads \cap SeqRange(ctxDir.listing) = {})
    => [i \in 1..Len(outFiles) |-> <<outFiles[i].name, outFiles[i].content>>]
          = [i \in 1..Len(SelectSeq(ctxDir.listing, IsTextFile)) |->
                <<SelectSeq(ctxDir.listing, IsTextFile)[i],
                  ContextContent(SelectSeq(ctxDir.listing, IsTextFile)[i])>>]

----------------------------------------------------------------------------
(* Further claims about withFileLock and the operations under it (Spec)     *)

\* The callers whose operation on f has started and whose finally block has
\* not run yet.
InFlight(f) ==
    {p \in Callers : op[p].filePath = f /\ pc[p] \in InOperation \cup {"release"}}

\* C11: when no operation on a path is in flight the lock table holds no
\* marker for it; an appendLearning whose writeFile rejects, for want of the
\* memory directory, ends with that error at its caller; and whoever waits
\* for a lock waits for an operation still in flight or is queued to resume.
C11_NoLockLeak ==
    /\ \A f \in MemoryFileNames : InFlight(f) = {} => fileLocks[f] = NoLock
    /\ \A p \in Callers :
          (pc[p] = "done" /\ op[p].fn = "appendLearning" /\ ~memDirExists)
              => ret[p] = "error"
    /\ \A p \in Callers :
          pc[p] = "awaitLock" =>
              \/ \E i \in 1..Len(microq) : microq[i] = p
              \/ \E q \in InFlight(op[p].filePath) :
                    \E i \in 1..Len(waiters[q]) : waiters[q][i] = p

\* An operation threw while another caller waited for its lock; both calls
\* have settled, the second after running its operation, and the table is
\* empty.
C11_Witness ==
    /\ pc[1] = "done" /\ ret[1] = "error"
    /\ pc[2] = "done" /\ ret[2] = "ok"
    /\ op[2].filePath = op[1].filePath
    /\ after[2] = 0
    /\ overlapping
    /\ \A f \in MemoryFileNames : fileLocks[f] = NoLock

\* C12: no step lowers a usage counter stored in a memory file, when the
\* calls all arrive while the first caller's operation is in flight.
C12_CountersNeverDecrease ==
    [][overlapping =>
          \A f \in MemoryFileNames, s \in Stats :
              (files[f].exists /\ files'[f].exists)
                  => StoredStat(files'[f], s) >= StoredStat(files[f], s)]_vars

----------------------------------------------------------------------------
(* Claims about rejected file-system calls under withFileLock (SpecFaults)  *)

\* Caller p is the only one that has called so far.
OnlyCaller(p) == pc[p] # "idle" /\ \A q \in Callers \ {p} : pc[q] = "idle"

\* C13: an incrementUsageStat call never settles with an error; when its
\* readFile or writeFile rejected, because the file does not exist or for any
\* other reason, and no other call was made, every file is as it was before
\* the call, none was created, and once the call has settled the lock table
\* holds no marker for the path.
C13_FailedIncrementIsNoOp ==
    \A p \in Callers :
        op[p].fn = "incrementUsageStat" =>
            /\ ret[p] # "error"
            /\ (rejected[p] # {} /\ OnlyCaller(p)) =>
                  /\ files = files0
                  /\ pc[p] \in {"release", "done"}
                  /\ pc[p] = "done" => (ret[p] = "ok" /\ fileLocks[op[p].filePath] = NoLock)

\* The writeFile of an increment on a file that exists rejected and the call
\* has settled.
C13_Witness ==
    /\ op[1].fn = "incrementUsageStat"
    /\ OnlyCaller(1)
    /\ files0[op[1].filePath].exists
    /\ rejected[1] = {"writeFile"}
    /\ pc[1] = "done"
    /\ ret[1] = "ok"

----------------------------------------------------------------------------
(* Pure functions, each applied to an argument drawn from a bounded set     *)

\* Nothing else of the program takes part.
ProgramIdle ==
    /\ memDirExists = FALSE
    /\ files = [f \in MemoryFileNames |-> NoFile]
    /\ files0 = files
    /\ LockIdle
    /\ LoadIdle
    /\ NoTasks

programVars == <<memDirExists, files, lockVars, histVars, loadVars, tasks>>

\* ---- serializeFrontmatter(metadata) + '\n' + body, then parseFrontmatter

CodecMetadata ==
    {createDefaultMetadata,
     IndexMetadata,
     GotchasMetadata,
     AuthMetadata,
     [AuthMetadata EXCEPT !.usageStats = [loaded |-> 4, referenced |-> 2, successfulFeatures |-> 1]],
     [createDefaultMetadata EXCEPT !.importance = 100, !.relatedFiles = {"gotchas.md"}]}

CodecBodies ==
    {<<>>,
     <<Blank>>,
     <<Prose("notes")>>,
     <<Blank, Prose("notes")>>,
     <<Heading("Gotchas"), Prose("lessons")>>,
     <<Heading("Gotchas"), Blank, Prose("lessons")>>,
     <<Prose("notes"), Blank>>}

InitCodec ==
    /\ arg \in [metadata : CodecMetadata, body : CodecBodies]
    /\ results = <<>>
    /\ ProgramIdle

Serialize ==
    /\ Len(results) = 0
    /\ results' = <<serializeFrontmatter(arg.metadata, arg.body)>>
    /\ UNCHANGED <<arg, programVars>>

Parse ==
    /\ Len(results) = 1
    /\ results' = Append(results, parseFrontmatter(results[1]))
    /\ UNCHANGED <<arg, programVars>>

CodecNext ==
    \/ Serialize
    \/ Parse

SpecCodec == InitCodec /\ [][CodecNext]_vars

\* C14: parsing what was serialized from a metadata value and a body returns
\* that metadata, field by field, and that body.
C14_RoundTrip ==
    Len(results) = 2 =>
        /\ \A field \in DOMAIN arg.metadata :
              results[2].metadata[field] = arg.metadata[field]
        /\ results[2].body = arg.body

\* ---- parseFrontmatter, lines 182-187: the importance line of a header

MaxImportanceLen == 3

Digits == {"0", "1", "3", "5"}

\* The characters that may follow "importance: " in the header.
ImportanceChars == Digits \cup {".", "-"}

ImportanceTexts ==
    UNION {[1..n -> ImportanceChars] : n \in 0..MaxImportanceLen}

DigitValue(c) == CASE c = "0" -> 0 [] c = "1" -> 1 [] c = "3" -> 3 [] OTHER -> 5

\* The longest prefix of s made of characters of set.
RECURSIVE TakeWhile(_, _)
TakeWhile(s, set) ==
    IF s # <<>> /\ Head(s) \in set THEN <<Head(s)>> \o TakeWhile(Tail(s), set) ELSE <<>>

RECURSIVE Decimal(_)
Decimal(ds) ==
    IF ds = <<>> THEN 0
    ELSE 10 * Decimal(SubSeq(ds, 1, Len(ds) - 1)) + DigitValue(ds[Len(ds)])

RECURSIVE Pow10(_)
Pow10(n) == IF n = 0 THEN 1 ELSE 10 * Pow10(n - 1)

\* A number is num/den, or NaN.
NaN == [nan |-> TRUE, num |-> 0, den |-> 1]

Number(num, den) == [nan |-> FALSE, num |-> num, den |-> den]

\* JavaScript's parseFloat on text made of digits and dots: the longest prefix
\* that is a decimal literal, NaN when that prefix has no digit.
parseFloat(s) ==
    LET int == TakeWhile(s, Digits)
        rest == SubSeq(s, Len(int) + 1, Len(s))
        frac == IF rest # <<>> /\ Head(rest) = "." THEN TakeWhile(Tail(rest), Digits)
                ELSE <<>>
    IN  IF int = <<>> /\ frac = <<>> THEN NaN
        ELSE Number(Decimal(int) * Pow10(Len(frac)) + Decimal(frac), Pow10(Len(frac)))

\* Math.max(0, Math.min(1, value)); both return NaN for NaN.
ClampToUnit(value) ==
    IF value.nan THEN NaN
    ELSE IF value.num > value.den THEN Number(1, 1)
    ELSE IF value.num < 0 THEN Number(0, 1)
    ELSE value

\* The importance parseFrontmatter returns for the header line
\* "importance: " \o text: /importance:\s*([\d.]+)/ captures the digits and
\* dots that follow at once; without a match the default 0.5 stays.
ParseImportance(text) ==
    LET captured == TakeWhile(text, Digits \cup {"."})
    IN  IF captured = <<>> THEN Number(1, 2)
        ELSE ClampToUnit(parseFloat(captured))

InitImportance ==
    /\ arg \in ImportanceTexts
    /\ results = <<>>
    /\ ProgramIdle

ParseImportanceLine ==
    /\ Len(results) = 0
    /\ results' = <<ParseImportance(arg)>>
    /\ UNCHANGED <<arg, programVars>>

SpecImportance == InitImportance /\ [][ParseImportanceLine]_vars

\* C15: 'importance: 1.5' is parsed as 1, 'importance: -3' as 0, and whatever
\* the text the importance returned is a number from 0 to 1.
C15_ImportanceClamped ==
    Len(results) = 1 =>
        /\ ~results[1].nan
        /\ 0 <= results[1].num /\ results[1].num <= results[1].den
        /\ arg = <<"1", ".", "5">> => results[1].num = results[1].den
        /\ arg = <<"-", "3">> => results[1].num = 0

\* ---- calculateUsageScore

MaxUsageStat == 4

InitUsage ==
    /\ arg \in [loaded : 0..MaxUsageStat,
                referenced : 0..MaxUsageStat,
                successfulFeatures : 0..MaxUsageStat]
    /\ results = <<>>
    /\ ProgramIdle

ScoreUsage ==
    /\ Len(results) = 0
    /\ results' = <<calculateUsageScore(arg)>>
    /\ UNCHANGED <<arg, programVars>>

SpecUsage == InitUsage /\ [][ScoreUsage]_vars

\* C16: calculateUsageScore returns 1 for stats with loaded = 0 and a value
\* from 0.5 to 1.0 for stats with loaded > 0.
C16_UsageScoreBounds ==
    Len(results) = 1 =>
        /\ arg.loaded = 0 => results[1][1] = results[1][2]
        /\ arg.loaded > 0 =>
              /\ 2 * results[1][1] >= results[1][2]
              /\ results[1][1] <= results[1][2]

----------------------------------------------------------------------------
(* Repeated requests for one path.  Every caller may call again once its    *)
(* call has settled; each request is incrementUsageStat(gotchas.md,         *)
(* 'loaded') and arrives from a task of the event loop, when no             *)
(* continuation is queued.                                                  *)

MaxRequests == 5

QueueCall ==
    [fn |-> "incrementUsageStat", filePath |-> "gotchas.md", stat |-> "loaded",
     learning |-> NoCall.learning]

Request(p) ==
    /\ pc[p] \in {"idle", "done"}
    /\ (p > 1 /\ pc[p] = "idle") => pc[p - 1] # "idle"
    /\ microq = <<>>
    /\ Len(requests) < MaxRequests
    /\ op' = [op EXCEPT ![p] = QueueCall]
    /\ ret' = [ret EXCEPT ![p] = "none"]
    /\ rejected' = [rejected EXCEPT ![p] = {}]
    /\ after' = [after EXCEPT ![p] = appendsDone[QueueCall.filePath]]
    /\ overlapping' = (overlapping /\ (requests # <<>> => pc[requests[1]] \in InOperation))
    /\ requests' = Append(requests, p)
    /\ IF ExistingLock(QueueCall.filePath) # NoLock
       THEN /\ pc' = [pc EXCEPT ![p] = "awaitLock"]
            /\ waiters' = [waiters EXCEPT ![ExistingLock(QueueCall.filePath)] = Append(@, p)]
            /\ UNCHANGED fileLocks
       ELSE /\ StartOperation(p, QueueCall)
            /\ UNCHANGED waiters
    /\ UNCHANGED <<memDirExists, files, microq, pending, files0, appendsDone, log,
                   fsFaults, loadVars, tasks, pureVars>>

InitQueue ==
    /\ CallersStart
    /\ fsFaults = {}
    /\ memDirExists
    /\ files["gotchas.md"].exists /\ files["gotchas.md"].fm
    /\ files["api-design.md"] = NoFile

QueueNext ==
    \E p \in Callers :
        \/ Request(p)
        \/ Resume(p)
        \/ ReadFile(p)
        \/ WriteFile(p)
        \/ Release(p)

SpecQueue == InitQueue /\ [][QueueNext]_vars

\* The position in requests of the latest call of caller p.
LastRequest(p) ==
    CHOOSE i \in 1..Len(requests) :
        requests[i] = p /\ \A j \in (i + 1)..Len(requests) : requests[j] # p

\* C17: while a caller waits for the lock of a path, no caller that asked for
\* that path after it has started its operation.
C17_StartInRequestOrder ==
    \A p, q \in Callers :
        (/\ pc[p] = "awaitLock"
         /\ pc[q] # "idle"
         /\ op[q].filePath = op[p].filePath
         /\ LastRequest(q) > LastRequest(p))
        => pc[q] = "awaitLock"

----------------------------------------------------------------------------
(* Progress of withFileLock callers *)

\* What the event loop does for caller p once p has called: it runs the
\* queued continuation of `await existingLock`, settles the file-system call
\* the operation awaits, and runs the finally block.
Progress(p) ==
    \/ Resume(p)
    \/ ReadFile(p)
    \/ WriteFile(p)
    \/ Access(p)
    \/ AppendFile(p)
    \/ CreateFile(p)
    \/ Release(p)

\* The callers of Spec, starting from a memory folder that holds gotchas.md
\* and no api-design.md, with an event loop that keeps running and
\* file-system calls that all settle; nothing obliges a caller to call.
SpecLive == InitQueue /\ [][Next]_vars /\ \A p \in Callers : WF_vars(Progress(p))

\* C18: every caller of withFileLock (through incrementUsageStat or
\* appendLearning, on the same path as others or on a different one)
\* eventually runs its operation and completes: no caller waits forever.
C18_EveryCallerCompletes ==
    \A p \in Callers : (pc[p] # "idle") ~> (pc[p] = "done")

\* Three overlapping calls on one path, the first two of them
\* incrementUsageStat calls, have all completed.
C18_Witness ==
    /\ overlapping
    /\ AllDone
    /\ op[1].fn = "incrementUsageStat" /\ op[2].fn = "incrementUsageStat"
    /\ \A p \in Callers : op[p].filePath = op[1].filePath

----------------------------------------------------------------------------
(* Calls on different paths *)

\* Caller p calls in this step.
Calls(p) == pc[p] = "idle" /\ pc'[p] # "idle"

\* C19: a call for a path on which no operation is in flight starts its
\* operation in the same step, without waiting, whatever is in flight on the
\* other paths; and a call that does wait, waits for an operation in flight
\* on its own path.
C19_FreePathStartsAtOnce ==
    [][\A p \in Callers :
          Calls(p) =>
              /\ InFlight(op'[p].filePath) = {} => pc'[p] = FirstAwait(op'[p])
              /\ pc'[p] = "awaitLock" =>
                     \E q \in InFlight(op'[p].filePath) :
                         waiters'[q] = Append(waiters[q], p)]_vars

\* The second caller has started its operation while that of the first is
\* in flight on the other path.
C19_Witness ==
    /\ pc[1] \in InOperation
    /\ pc[2] \in InOperation
    /\ op[1].filePath # op[2].filePath
    /\ requests = <<1, 2>>

----------------------------------------------------------------------------
(* Concurrent appendLearning calls for a file that does not exist yet *)

\* The appendLearning calls.
Appenders == {p \in Callers : op[p].fn = "appendLearning"}

\* The appendLearning calls that found no file and wrote a new one.
Creators == {p \in Appenders : "access" \in rejected[p] /\ ret[p] = "ok"}

\* C20: when the memory directory exists, file f does not, every caller calls
\* for f while the first caller's operation is in flight, all callers after
\* the first call appendLearning, and all calls have completed, exactly one
\* call has created f and f holds the entry of every appendLearning call.
C20_CreatedOnceWithEveryEntry ==
    \A f \in MemoryFileNames :
        (/\ AllDone
         /\ overlapping
         /\ memDirExists
         /\ ~files0[f].exists
         /\ \A p \in Callers : op[p].filePath = f
         /\ Callers \ {1} \subseteq Appenders)
        => /\ Cardinality(Creators) = 1
           /\ \A p \in Appenders :
                 \E i \in DOMAIN files[f].body :
                     files[f].body[i] = formatLearning(op[p].learning)

----------------------------------------------------------------------------
(* The effect of one incrementUsageStat call *)

\* C21: when caller 1 alone has called incrementUsageStat(f, stat) for a file
\* that exists and the call has completed, parseFrontmatter reads from f the
\* metadata it read before with the named counter one higher and the same
\* body, and no other file has changed.
C21_IncrementChangesOneCounter ==
    \A f \in MemoryFileNames :
        (/\ OnlyCaller(1)
         /\ pc[1] = "done"
         /\ op[1].fn = "incrementUsageStat"
         /\ op[1].filePath = f
         /\ files0[f].exists)
        => LET before == parseFrontmatter(files0[f])
               now == parseFrontmatter(files[f])
           IN  /\ now.metadata =
                     [before.metadata EXCEPT !.usageStats[op[1].stat] = @ + 1]
               /\ now.body = before.body
               /\ \A g \in MemoryFileNames \ {f} : files[g] = files0[g]

----------------------------------------------------------------------------
(* appendLearning without a memory directory *)

\* C22: when caller 1 alone has called appendLearning for a category whose
\* file did not exist, with or without a memory directory, and the call has
\* completed, it has resolved without an error and the file exists and holds
\* the learning.
C22_AppendCreatesMissingFile ==
    (/\ OnlyCaller(1)
     /\ pc[1] = "done"
     /\ op[1].fn = "appendLearning"
     /\ ~files0[op[1].filePath].exists)
    => /\ ret[1] = "ok"
       /\ files[op[1].filePath] = NewLearningFile(op[1].learning)

----------------------------------------------------------------------------
(* Further claims about the selection of memory files (SpecSelect) *)

\* The candidate that is neither gotchas.md nor of importance >= 0.9.
Ordinary(file) == file.fileName # "gotchas.md" /\ ~HighImportance(file.metadata)

\* readdir lists file f before file g.
ListedBefore(f, g) ==
    \E m, n \in 1..Len(memListing) : m < n /\ memListing[m] = f /\ memListing[n] = g

\* The candidate with this name.
Candidate(name) == scoredFiles[CHOOSE i \in 1..Len(scoredFiles) : scoredFiles[i].fileName = name]

\* C23: every selected file is a candidate; a selected candidate that is
\* neither gotchas.md nor of importance >= 0.9 has a score above 0 and was
\* selected for a task that yields terms; and every file in memoryFiles is a
\* selected candidate, so without task terms memoryFiles holds gotchas.md
\* and files of importance >= 0.9 only.
C23_OrdinaryNeedsTermsAndScore ==
    /\ selectedFiles \subseteq Names(scoredFiles)
    /\ \A i \in 1..Len(scoredFiles) :
          (scoredFiles[i].fileName \in selectedFiles /\ Ordinary(scoredFiles[i]))
              => /\ TaskTerms(opts.taskContext) # {}
                 /\ Positive(scoredFiles[i].score)
    /\ \A i \in 1..Len(memoryFiles) :
          /\ memoryFiles[i].name \in selectedFiles
          /\ TaskTerms(opts.taskContext) = {} => ~Ordinary(Candidate(memoryFiles[i].name))

\* A call has returned an ordinary candidate in memoryFiles.
C23_Witness ==
    /\ Finished
    /\ \E i \in 1..Len(memoryFiles) : Ordinary(Candidate(memoryFiles[i].name))

\* C24: when a candidate that is neither gotchas.md nor of importance >= 0.9
\* is selected, every candidate with a strictly higher score is selected, and
\* so is every candidate with the same score that the directory lists
\* earlier.
C24_HigherScoreSelectedFirst ==
    \A i, j \in 1..Len(scoredFiles) :
        (/\ scoredFiles[i].fileName \in selectedFiles
         /\ Ordinary(scoredFiles[i])
         /\ \/ Greater(scoredFiles[j].score, scoredFiles[i].score)
            \/ /\ scoredFiles[j].score = scoredFiles[i].score
               /\ ListedBefore(scoredFiles[j].fileName, scoredFiles[i].fileName))
        => scoredFiles[j].fileName \in selectedFiles

\* C25: once the call has returned, every file in memoryFiles whose
\* increment was not rejected by the file system has a loaded counter one
\* higher than the call read it, with referenced and successfulFeatures as
\* the call read them; and every memory file that existed before the call and
\* is not in memoryFiles is as it was, unless initializeMemoryFolder found
\* the directory inaccessible.
C25_LoadedRaisedOnReturnedOnly ==
    Finished =>
        \A f \in LoadFileNames :
            /\ (f \in Returned /\ "usageStat" \notin failed.calls)
                  => \A stat \in Stats :
                        StoredStat(files[f], stat) =
                            Candidate(f).metadata.usageStats[stat]
                                + (IF stat = "loaded" THEN 1 ELSE 0)
            /\ (f \notin Returned /\ files0[f].exists /\ "access" \notin failed.calls)
                  => files[f] = files0[f]

\* A call during which only the access to the missing context directory was
\* rejected has returned two files and left out a third that has counters
\* above zero.
C25_Witness ==
    /\ Finished
    /\ failed = [calls |-> {"context"}, reads |-> {}]
    /\ Cardinality(Returned) = 2
    /\ \E f \in LoadFileNames \ Returned :
          /\ IsMemoryMd(f)
          /\ files0[f].exists
          /\ StoredStat(files0[f], "loaded") > 0

----------------------------------------------------------------------------
(* Concurrent initializeMemoryFolder calls.                                 *)
(*                                                                          *)
(* Callers 2 and 3 call initializeMemoryFolder, directly or from            *)
(* loadContextFiles (lines 266-272); caller 1 calls                         *)
(* incrementUsageStat(gotchas.md, 'loaded'), as the load loop of a          *)
(* loadContextFiles call does.  pc of an initializer names the await it is  *)
(* suspended at: "accessDir", "mkdir", "writeIndex", "writeGotchas".        *)

Initializers == {2, 3}

InitFileNames == {"_index.md", "gotchas.md"}

InitializeCall ==
    [fn |-> "initializeMemoryFolder", filePath |-> "", stat |-> "",
     learning |-> NoCall.learning]

\* A call of initializeMemoryFolder, up to `await fsModule.access(memoryDir)`.
StartInitialize(p) ==
    /\ p \in Initializers
    /\ pc[p] \in {"idle", "done"}
    /\ Len(requests) < MaxRequests
    /\ pc' = [pc EXCEPT ![p] = "accessDir"]
    /\ op' = [op EXCEPT ![p] = InitializeCall]
    /\ ret' = [ret EXCEPT ![p] = "none"]
    /\ rejected' = [rejected EXCEPT ![p] = {}]
    /\ requests' = Append(requests, p)
    /\ UNCHANGED <<memDirExists, files, fileLocks, waiters, microq, pending, files0,
                   appendsDone, after, log, overlapping, fsFaults, loadVars, tasks, pureVars>>

\* Lines 620-624: access settles; the directory exists and the function
\* returns, or the catch block begins with mkdir.
AccessDir(p) ==
    /\ pc[p] = "accessDir"
    /\ IF memDirExists
       THEN /\ pc' = [pc EXCEPT ![p] = "done"]
            /\ ret' = [ret EXCEPT ![p] = "ok"]
            /\ UNCHANGED rejected
       ELSE /\ pc' = [pc EXCEPT ![p] = "mkdir"]
            /\ rejected' = [rejected EXCEPT ![p] = @ \cup {"access"}]
            /\ UNCHANGED ret
    /\ UNCHANGED <<memDirExists, files, fileLocks, waiters, microq, op, pending, files0,
                   appendsDone, after, log, overlapping, fsFaults, requests, loadVars,
                   tasks, pureVars>>

\* Line 626: mkdir(memoryDir, { recursive: true }) settles.
Mkdir(p) ==
    /\ pc[p] = "mkdir"
    /\ memDirExists' = TRUE
    /\ pc' = [pc EXCEPT ![p] = "writeIndex"]
    /\ UNCHANGED <<files, fileLocks, waiters, microq, op, pending, ret, histVars, loadVars,
                   tasks, pureVars>>

\* Line 658: writeFile of _index.md settles.
WriteIndex(p) ==
    /\ pc[p] = "writeIndex"
    /\ files' = [files EXCEPT !["_index.md"] = IndexContent]
    /\ log' = [log EXCEPT !["_index.md"] = Append(@, IndexContent)]
    /\ pc' = [pc EXCEPT ![p] = "writeGotchas"]
    /\ UNCHANGED <<memDirExists, fileLocks, waiters, microq, op, pending, ret, files0,
                   appendsDone, after, overlapping, fsFaults, rejected, requests, loadVars,
                   tasks, pureVars>>

\* Line 681: writeFile of gotchas.md settles, and the function returns.
WriteGotchas(p) ==
    /\ pc[p] = "writeGotchas"
    /\ files' = [files EXCEPT !["gotchas.md"] = GotchasContent]
    /\ log' = [log EXCEPT !["gotchas.md"] = Append(@, GotchasContent)]
    /\ pc' = [pc EXCEPT ![p] = "done"]
    /\ ret' = [ret EXCEPT ![p] = "ok"]
    /\ UNCHANGED <<memDirExists, fileLocks, waiters, microq, op, pending, files0,
                   appendsDone, after, overlapping, fsFaults, rejected, requests, loadVars,
                   tasks, pureVars>>

\* A gotchas.md that has been loaded and referenced before.
UsedGotchasContent ==
    MemoryFile(TRUE,
               [GotchasMetadata EXCEPT !.usageStats =
                   [loaded |-> 2, referenced |-> 1, successfulFeatures |-> 1]],
               <<Heading("Gotchas"), Prose("lessons")>>)

\* A project without a memory directory, or one whose memory directory was
\* initialized before.
InitFolder ==
    /\ PureIdle
    /\ NoTasks
    /\ LoadIdle
    /\ memDirExists \in BOOLEAN
    /\ files \in [InitFileNames -> {NoFile, IndexContent, GotchasContent, UsedGotchasContent}]
    /\ IF memDirExists
       THEN /\ files["_index.md"] = IndexContent
            /\ files["gotchas.md"] \in {GotchasContent, UsedGotchasContent}
       ELSE \A f \in InitFileNames : files[f] = NoFile
    /\ files0 = files
    /\ fileLocks = [f \in MemoryFileNames |-> NoLock]
    /\ waiters = [p \in Callers |-> <<>>]
    /\ microq = <<>>
    /\ pc = [p \in Callers |-> "idle"]
    /\ op = [p \in Callers |-> NoCall]
    /\ pending = [p \in Callers |-> NoFile]
    /\ ret = [p \in Callers |-> "none"]
    /\ appendsDone = [f \in MemoryFileNames |-> 0]
    /\ after = [p \in Callers |-> 0]
    /\ log = [f \in InitFileNames |-> <<>>]
    /\ overlapping = TRUE
    /\ fsFaults = {}
    /\ rejected = [p \in Callers |-> {}]
    /\ requests = <<>>

FolderNext ==
    \/ \E p \in Initializers :
          \/ StartInitialize(p)
          \/ AccessDir(p)
          \/ Mkdir(p)
          \/ WriteIndex(p)
          \/ WriteGotchas(p)
    \/ \E p \in Callers \ Initializers :
          \/ Request(p)
          \/ ReadFile(p)
          \/ WriteFile(p)
          \/ Release(p)

SpecFolder == InitFolder /\ [][FolderNext]_vars

\* C26: initializeMemoryFolder calls, one after another or overlapping, write
\* each starter file at most once, and not at all when the memory directory
\* existed from the start; and once an incrementUsageStat of gotchas.md has
\* completed with its write done, gotchas.md is not the starter content.
C26_StarterFilesWrittenOnce ==
    /\ \A f \in InitFileNames : Len(log[f]) <= 1
    /\ files0["_index.md"].exists => \A f \in InitFileNames : log[f] = <<>>
    /\ (pc[1] = "done" /\ rejected[1] = {}) => files["gotchas.md"] # GotchasContent

----------------------------------------------------------------------------
(* Agent tasks.                                                             *)
(*                                                                          *)
(* Every caller is an agent task on one project: its loadContextFiles call  *)
(* returns gotchas.md and so calls incrementUsageStat(gotchas.md, 'loaded') *)
(* (context-loader.ts line 389); after the agent has run, its               *)
(* recordMemoryUsage call gets that file, the agent's output and the        *)
(* outcome, and calls incrementUsageStat for 'referenced' and for           *)
(* 'successfulFeatures' (memory-loader.ts lines 515-519).                   *)

TaskFile == "gotchas.md"

TokenNotes == "Refresh the token before the token expires and revoke the old token"

SecretNotes == "Never log a password or a session cookie"

ToolNotes == "Prefer pnpm"

AgentOutput == "Stored the token in a session cookie, never in a log"

\* text.toLowerCase().replace(/[^a-z0-9\s]/g, ' ').split(/\s+/) on the texts
\* of the tasks: the words in order, repeated as often as they occur.
WordList(text) ==
    CASE text = TokenNotes ->
             <<"refresh", "the", "token", "before", "the", "token", "expires", "and",
               "revoke", "the", "old", "token">>
      [] text = SecretNotes ->
             <<"never", "log", "a", "password", "or", "a", "session", "cookie">>
      [] text = ToolNotes -> <<"prefer", "pnpm">>
      [] text = AgentOutput ->
             <<"stored", "the", "token", "in", "a", "session", "cookie", "never", "in",
               "a", "log">>
      [] OTHER -> <<>>

\* extractTerms as recordMemoryUsage uses it: the array that filter returns.
extractTermsArray(text) ==
    SelectSeq(WordList(text), LAMBDA w : w \notin ShortWords /\ w \notin stopWords)

\* countMatches on arrays: the number of elements of arr1 found in arr2.
countMatchesArray(arr1, arr2) ==
    Len(SelectSeq(arr1, LAMBDA t : Lower(t) \in {Lower(u) : u \in SeqRange(arr2)}))

\* Lines 511-513 of recordMemoryUsage.
wasReferenced(file, agentOutput) ==
    countMatchesArray(extractTermsArray(file.content), extractTermsArray(agentOutput)) >= 3

\* The arguments task p may give to recordMemoryUsage.  Task 1 has loaded any
\* of the notes, with either outcome; the other tasks have loaded the notes
\* about secrets and their features have succeeded.
TaskArguments(p) ==
    {[file |-> [name |-> TaskFile, content |-> c],
      agentOutput |-> AgentOutput,
      success |-> ok] :
        c \in IF p = 1 THEN {TokenNotes, SecretNotes, ToolNotes} ELSE {SecretNotes},
        ok \in IF p = 1 THEN BOOLEAN ELSE {TRUE}}

\* The counter task p has incrementUsageStat raise next, "" when it has none
\* left: 'loaded' first; then 'referenced' if the file counts as referenced;
\* then 'successfulFeatures' if the feature succeeded.
NextStat(p) ==
    IF pc[p] = "idle" THEN "loaded"
    ELSE IF op[p].stat = "loaded"
         THEN IF wasReferenced(tasks[p].file, tasks[p].agentOutput) THEN "referenced" ELSE ""
    ELSE IF op[p].stat = "referenced"
         THEN IF tasks[p].success THEN "successfulFeatures" ELSE ""
    ELSE ""

\* The next incrementUsageStat call of task p, up to its first await.  It is
\* made from a continuation that is queued after those of the callers its
\* previous call has woken.
TaskCall(p) ==
    /\ pc[p] \in {"idle", "done"}
    /\ NextStat(p) # ""
    /\ microq = <<>>
    /\ LET call == [fn |-> "incrementUsageStat", filePath |-> tasks[p].file.name,
                    stat |-> NextStat(p), learning |-> NoCall.learning]
       IN  /\ op' = [op EXCEPT ![p] = call]
           /\ ret' = [ret EXCEPT ![p] = "none"]
           /\ IF ExistingLock(call.filePath) # NoLock
              THEN /\ pc' = [pc EXCEPT ![p] = "awaitLock"]
                   /\ waiters' = [waiters EXCEPT ![ExistingLock(call.filePath)] = Append(@, p)]
                   /\ UNCHANGED fileLocks
              ELSE /\ StartOperation(p, call)
                   /\ UNCHANGED waiters
    /\ UNCHANGED <<memDirExists, files, microq, pending, files0, appendsDone, after, log,
                   overlapping, fsFaults, rejected, requests, loadVars, tasks, pureVars>>

\* gotchas.md as initializeMemoryFolder wrote it, or used before.
InitTasks ==
    /\ PureIdle
    /\ LoadIdle
    /\ memDirExists = TRUE
    /\ \E content \in {GotchasContent, UsedGotchasContent} :
           files = [f \in MemoryFileNames |-> IF f = TaskFile THEN content ELSE NoFile]
    /\ files0 = files
    /\ fileLocks = [f \in MemoryFileNames |-> NoLock]
    /\ waiters = [p \in Callers |-> <<>>]
    /\ microq = <<>>
    /\ pc = [p \in Callers |-> "idle"]
    /\ op = [p \in Callers |-> NoCall]
    /\ pending = [p \in Callers |-> NoFile]
    /\ ret = [p \in Callers |-> "none"]
    /\ appendsDone = [f \in MemoryFileNames |-> 0]
    /\ after = [p \in Callers |-> 0]
    /\ log = [f \in MemoryFileNames |-> <<>>]
    /\ overlapping = TRUE
    /\ fsFaults = {}
    /\ rejected = [p \in Callers |-> {}]
    /\ requests = <<>>
    /\ tasks \in [Callers -> UNION {TaskArguments(p) : p \in Callers}]
    /\ \A p \in Callers : tasks[p] \in TaskArguments(p)

TasksNext ==
    \E p \in Callers :
        \/ TaskCall(p)
        \/ Resume(p)
        \/ ReadFile(p)
        \/ WriteFile(p)
        \/ Release(p)

SpecTasks == InitTasks /\ [][TasksNext]_vars

\* Task p has made every call it had to make, and all have completed.
TaskFinished(p) == pc[p] = "done" /\ NextStat(p) = ""

\* The distinct terms of the file's content that occur in the agent output.
CommonTerms(task) ==
    SeqRange(extractTermsArray(task.file.content))
        \cap SeqRange(extractTermsArray(task.agentOutput))

\* C27: when task 1 alone has run and has finished, the referenced counter
\* of its file is one higher than before if at least 3 distinct terms of the
\* file's content occur in the agent output, and as before otherwise; the
\* successfulFeatures counter is one higher than before if that is so and
\* the feature succeeded, and as before otherwise.
C27_ReferencedOnThreeDistinctTerms ==
    (OnlyCaller(1) /\ TaskFinished(1))
    => LET referenced == Cardinality(CommonTerms(tasks[1])) >= 3
       IN  /\ StoredStat(files[TaskFile], "referenced") =
                 StoredStat(files0[TaskFile], "referenced") + (IF referenced THEN 1 ELSE 0)
           /\ StoredStat(files[TaskFile], "successfulFeatures") =
                 StoredStat(files0[TaskFile], "successfulFeatures")
                     + (IF referenced /\ tasks[1].success THEN 1 ELSE 0)

\* C28: with the counters of a file changed only by the calls of the agent
\* tasks, the stored successfulFeatures counter of the file never exceeds its
\* stored referenced counter, however the tasks overlap.
C28_SuccessfulAtMostReferenced ==
    StoredStat(files[TaskFile], "successfulFeatures")
        <= StoredStat(files[TaskFile], "referenced")

\* C30: with every task recording usage once, after its load and for the
\* file the load returned, the stored referenced counter of the file never
\* exceeds its stored loaded counter, however the tasks overlap, so that
\* the usage score computed from the stored counters stays within its range.
C30_ReferencedAtMostLoaded ==
    /\ StoredStat(files[TaskFile], "referenced") <= StoredStat(files[TaskFile], "loaded")
    /\ ~Greater(calculateUsageScore(parseFrontmatter(files[TaskFile]).metadata.usageStats),
                <<1, 1>>)

----------------------------------------------------------------------------
(* The marker of a path while an operation on it executes (SpecQueue) *)

\* The callers whose operation on f has started and has not settled yet.
Executing(f) == {p \in Callers : op[p].filePath = f /\ pc[p] \in InOperation}

\* C29: whenever an operation that withFileLock has started for a path is
\* still executing, the lock table holds a marker for that path, so that a
\* caller arriving for the path finds a lock to wait for.
C29_MarkerHeldWhileExecuting ==
    \A f \in MemoryFileNames :
        Executing(f) # {} => ExistingLock(f) # NoLock

====
